---- MODULE Spec2Model ----
(***************************************************************************)
(* The audio job pipeline of the backend: the job record kept in           *)
(* status.json (audio_pipeline.py), the semaphore that serialises heavy    *)
(* tasks (job_manager.py) and the two HTTP handlers that submit a job and  *)
(* poll its status (app.py).                                               *)
(*                                                                         *)
(* A job's directory tree is modelled by the set of file names in stems/,  *)
(* the set of file names in midi/, the nested Demucs output directory and  *)
(* the content of status.json.  The message and updated_at fields of a     *)
(* record are left out: no operation reads them.                           *)
(***************************************************************************)
EXTENDS Integers, Sequences, FiniteSets, TLC

(* ------------------------------ bounds -------------------------------- *)

\* Number of job identifiers of the runs with several jobs.
NumJobs == 2

Jobs == 1..NumJobs

\* The runs that follow one job through every outcome of its collaborators.
OneJob == {1}

(* --------------------------- program constants ------------------------ *)

\* job_manager.py: MAX_CONCURRENT_HEAVY_JOBS = 1
MAX_CONCURRENT_HEAVY_JOBS == 1

\* Python's None, as json.dump writes it.
NULL == "null"

\* The four stems Demucs (htdemucs) writes.
CoarseStems == {"vocals.wav", "drums.wav", "bass.wav", "other.wav"}

\* midi_map of start_processing_pipeline, in insertion order.
midi_map ==
  << <<"vocals_lead.wav", "melody_lead.mid">>,
     <<"bass.wav", "bass.mid">>,
     <<"guitars.wav", "guitars.mid">>,
     <<"keys_synth.wav", "keys_synth.mid">>,
     <<"harmony.wav", "harmony.mid">>,
     <<"snare.wav", "drums_notes.mid">> >>

MappedStems == {midi_map[i][1] : i \in 1..Len(midi_map)}

\* The MIDI file name midi_map gives a stem.
MidiOf(stem) == midi_map[CHOOSE i \in 1..Len(midi_map) : midi_map[i][1] = stem][2]

\* The progress of the loop as it would be without the division by
\* len(midi_map).
LoopProgressUnscaled(i) == 60 + i * 30

\* progress=60 + int((i/len(midi_map)) * 30), i counted from 0.
LoopProgress(i) == 60 + ((i * 30) \div Len(midi_map))

\* str(e) of the exceptions the collaborators raise.
SeparationError == "Stem separation failed"
SplitError == "split failed"

(* ------------------------------- state -------------------------------- *)

VARIABLES
  pc,          \* pc[j]: where job j's request / background task stands
  kwargs,      \* kwargs[j]: keyword arguments run_heavy_task passes to func
  status,      \* status[j]: status.json of job j: [content, json]
  buffer,      \* buffer[j]: record json.dump has produced, not yet on disk
  stems,       \* stems[j]: file names in <job_dir>/stems
  midi,        \* midi[j]: file names in <job_dir>/midi
  demucs_out,  \* demucs_out[j]: <job_dir>/htdemucs/input: [exists, files]
  sem_value,   \* _heavy_job_semaphore._value: the free slots
  i,           \* i[j]: index of the midi_map loop (0-based)
  e,           \* e[j]: str(e) of the exception the pipeline caught, or NULL
  sep_result,  \* sep_result[j]: how separate_stems_demucs ended for job j
  warned,      \* warned[j]: stems whose "Failed to extract MIDI" line was printed
  body_exit,   \* body_exit[j]: how func ended inside run_heavy_task
  written,     \* written[j]: the records persisted for job j, in order
  lastRead,    \* the response of the latest GET /api/process/{job_id}
  response_text,  \* the argument of extract_and_generate_midi: a token sequence
  data,        \* what json.loads gives for the JSON token of response_text
  output_dir,  \* the files of static/midi
  call         \* the call of extract_and_generate_midi: its locals and result

\* The variables of midi_engine.extract_and_generate_midi.
encoder == <<response_text, data, output_dir, call>>

vars == <<pc, kwargs, status, buffer, stems, midi, demucs_out, sem_value,
          i, e, sep_result, warned, body_exit, written, lastRead, encoder>>

\* A record with nothing in it: the value of a slot that holds no record.
Blank == [job_id |-> 0, state |-> "", progress |-> 0, error |-> NULL,
          stems |-> {}, midi |-> {}]

NoFile == [content |-> "absent", json |-> Blank]
NoDir == [exists |-> FALSE, files |-> {}]
NoRead == [job |-> 0, code |-> 0, body |-> [content |-> "none", json |-> Blank]]

\* The state of the job pipeline before any request.
PipelineInit ==
  /\ pc = [j \in Jobs |-> "none"]
  /\ kwargs = [j \in Jobs |-> {}]
  /\ status = [j \in Jobs |-> NoFile]
  /\ buffer = [j \in Jobs |-> Blank]
  /\ stems = [j \in Jobs |-> {}]
  /\ midi = [j \in Jobs |-> {}]
  /\ demucs_out = [j \in Jobs |-> NoDir]
  /\ sem_value = MAX_CONCURRENT_HEAVY_JOBS
  /\ i = [j \in Jobs |-> 0]
  /\ e = [j \in Jobs |-> NULL]
  /\ sep_result = [j \in Jobs |-> "none"]
  /\ warned = [j \in Jobs |-> {}]
  /\ body_exit = [j \in Jobs |-> "none"]
  /\ written = [j \in Jobs |-> <<>>]
  /\ lastRead = NoRead

(* ------------------------ AudioJobPipeline ---------------------------- *)

\* The dict as it would be with the artifacts listed once, when the job
\* directories are made, and not at every update.
StatusDictListedOnce(j, state, progress, error) ==
  [job_id |-> j, state |-> state, progress |-> progress, error |-> error,
   stems |-> {}, midi |-> {}]

\* The dict update_status builds: artifacts are the listings of stems/ and
\* midi/ at the moment of the call.
StatusDict(j, state, progress, error) ==
  [job_id |-> j, state |-> state, progress |-> progress, error |-> error,
   stems |-> stems[j], midi |-> midi[j]]

\* update_status up to open(status_path, "w"): the dict is built, the file is
\* truncated, and json.dump's output sits in the file object's buffer.
update_status(j, state, progress, error) ==
  /\ status' = [status EXCEPT ![j] = [content |-> "torn", json |-> Blank]]
  /\ buffer' = [buffer EXCEPT ![j] = StatusDict(j, state, progress, error)]

\* No write of job j's status.json is in progress.
Closed(j) == status[j].content # "torn"

\* The end of update_status's with block: the buffer reaches the file.
CloseStatus(j) ==
  /\ status[j].content = "torn"
  /\ status' = [status EXCEPT ![j] = [content |-> "json", json |-> buffer[j]]]
  /\ written' = [written EXCEPT ![j] = Append(@, buffer[j])]
  /\ buffer' = [buffer EXCEPT ![j] = Blank]
  /\ UNCHANGED <<pc, kwargs, stems, midi, demucs_out, sem_value, i, e,
                 sep_result, warned, body_exit, lastRead, encoder>>

\* initialize_job: the directories are made, the input copied and the first
\* record written.  It runs on the event loop inside process_audio, so no
\* other handler runs between its open and its close.
initialize_job(j) ==
  /\ status' = [status EXCEPT ![j] =
                  [content |-> "json", json |-> StatusDict(j, "initialized", 0, NULL)]]
  /\ written' = [written EXCEPT ![j] =
                  Append(@, StatusDict(j, "initialized", 0, NULL))]

(* ------------------------------ app.py -------------------------------- *)

\* process_audio as it would be if the handler took the semaphore itself
\* before it answers.
process_audio_gated(j) ==
  /\ pc[j] = "none"
  /\ sem_value > 0
  /\ initialize_job(j)
  /\ kwargs' = [kwargs EXCEPT ![j] = {"separation_model"}]
  /\ pc' = [pc EXCEPT ![j] = "queued"]
  /\ UNCHANGED <<buffer, stems, midi, demucs_out, sem_value, i, e, sep_result,
                 warned, body_exit, lastRead, encoder>>

\* POST /api/process: process_audio initializes the job and queues
\* run_heavy_task(start_processing_pipeline, job_id, separation_model=model);
\* the response is sent before the background task starts.
process_audio(j) ==
  /\ pc[j] = "none"
  /\ initialize_job(j)
  /\ kwargs' = [kwargs EXCEPT ![j] = {"separation_model"}]
  /\ pc' = [pc EXCEPT ![j] = "queued"]
  /\ UNCHANGED <<buffer, stems, midi, demucs_out, sem_value, i, e, sep_result,
                 warned, body_exit, lastRead, encoder>>

\* A caller other than process_audio: the job is initialized and
\* run_heavy_task(start_processing_pipeline, job_id) is awaited with the one
\* argument start_processing_pipeline declares.
run_pipeline(j) ==
  /\ pc[j] = "none"
  /\ initialize_job(j)
  /\ kwargs' = [kwargs EXCEPT ![j] = {}]
  /\ pc' = [pc EXCEPT ![j] = "queued"]
  /\ UNCHANGED <<buffer, stems, midi, demucs_out, sem_value, i, e, sep_result,
                 warned, body_exit, lastRead, encoder>>

\* get_status: the sentinel dict when status.json is missing, else json.load,
\* which raises on a truncated file.
get_status(j) ==
  CASE status[j].content = "absent" -> [content |-> "not_found", json |-> Blank]
    [] status[j].content = "torn" -> [content |-> "decode_error", json |-> Blank]
    [] OTHER -> [content |-> "json", json |-> status[j].json]

\* "error" in status: the sentinel dict has the key, and so has every dict
\* update_status writes ("error": error).
HasErrorKey(body) ==
  \/ body.content = "not_found"
  \/ body.content = "json" /\ "error" \in DOMAIN body.json

\* The HTTP status of GET /api/process/{job_id}: 404 when "error" is a key of
\* the status, 200 otherwise; an exception of get_status goes to
\* global_exception_handler, which answers 400.
ResponseCode(body) ==
  IF body.content = "decode_error" THEN 400
  ELSE IF HasErrorKey(body) THEN 404 ELSE 200

\* GET /api/process/{job_id}, for any identifier.
get_job_status(j) ==
  /\ lastRead' = [job |-> j, code |-> ResponseCode(get_status(j)),
                  body |-> get_status(j)]
  /\ UNCHANGED <<pc, kwargs, status, buffer, stems, midi, demucs_out, sem_value,
                 i, e, sep_result, warned, body_exit, written, encoder>>

(* --------------------------- job_manager.py --------------------------- *)

\* Acquire as it would be without the wait for a free slot.
AcquireNoWait(j) ==
  /\ pc[j] = "queued"
  /\ sem_value' = sem_value - 1
  /\ pc' = [pc EXCEPT ![j] = "call"]
  /\ UNCHANGED <<kwargs, status, buffer, stems, midi, demucs_out, i, e,
                 sep_result, warned, body_exit, written, lastRead, encoder>>

\* "async with _heavy_job_semaphore": acquire() returns once a slot is free
\* and takes it; until then the task stays blocked where it is.
Acquire(j) ==
  /\ pc[j] = "queued"
  /\ sem_value > 0
  /\ sem_value' = sem_value - 1
  /\ pc' = [pc EXCEPT ![j] = "call"]
  /\ UNCHANGED <<kwargs, status, buffer, stems, midi, demucs_out, i, e,
                 sep_result, warned, body_exit, written, lastRead, encoder>>

\* The call as it would be without await: the thread is started, the
\* "async with" block ends at once and the slot is free while func runs.
CallFuncNotAwaited(j) ==
  /\ pc[j] = "call"
  /\ sem_value' = sem_value + 1
  /\ IF kwargs[j] = {}
       THEN /\ pc' = [pc EXCEPT ![j] = "start"]
            /\ UNCHANGED body_exit
       ELSE /\ pc' = [pc EXCEPT ![j] = "exit"]
            /\ body_exit' = [body_exit EXCEPT ![j] = "raised"]
  /\ UNCHANGED <<kwargs, status, buffer, stems, midi, demucs_out, i,
                 e, sep_result, warned, written, lastRead, encoder>>

\* await asyncio.to_thread(func, *args, **kwargs): the worker thread calls
\* start_processing_pipeline(job_id, **kwargs).  The function declares job_id
\* only, so any keyword argument makes the call raise TypeError before its
\* first statement.
CallFunc(j) ==
  /\ pc[j] = "call"
  /\ IF kwargs[j] = {}
       THEN /\ pc' = [pc EXCEPT ![j] = "start"]
            /\ UNCHANGED body_exit
       ELSE /\ pc' = [pc EXCEPT ![j] = "exit"]
            /\ body_exit' = [body_exit EXCEPT ![j] = "raised"]
  /\ UNCHANGED <<kwargs, status, buffer, stems, midi, demucs_out, sem_value, i,
                 e, sep_result, warned, written, lastRead, encoder>>

\* Release as it would be with release() after the awaited call instead of
\* in the context manager's exit: an exception skips it.
ReleaseOnReturnOnly(j) ==
  /\ pc[j] = "exit"
  /\ sem_value' = IF body_exit[j] = "raised" THEN sem_value ELSE sem_value + 1
  /\ pc' = [pc EXCEPT ![j] = "done"]
  /\ UNCHANGED <<kwargs, status, buffer, stems, midi, demucs_out, i, e,
                 sep_result, warned, body_exit, written, lastRead, encoder>>

\* The exit of "async with", on return and on exception alike: release().
Release(j) ==
  /\ pc[j] = "exit"
  /\ sem_value' = sem_value + 1
  /\ pc' = [pc EXCEPT ![j] = "done"]
  /\ UNCHANGED <<kwargs, status, buffer, stems, midi, demucs_out, i, e,
                 sep_result, warned, body_exit, written, lastRead, encoder>>

(* ----------------- audio_pipeline.start_processing_pipeline ----------- *)

\* Every variable the pipeline's own statements leave alone.
GateUnchanged == UNCHANGED <<kwargs, sem_value, body_exit, lastRead, encoder>>

\* update_status("processing_stems", progress=10, ...)
StartStems(j) ==
  /\ pc[j] = "start"
  /\ update_status(j, "processing_stems", 10, NULL)
  /\ pc' = [pc EXCEPT ![j] = "separate"]
  /\ GateUnchanged
  /\ UNCHANGED <<stems, midi, demucs_out, i, e, sep_result, warned, written>>

\* audio_pipeline.py calls separate_stems_demucs, the three split functions
\* (audio_processor.py) and extract_midi_from_audio (midi_engine.py).  Each
\* call is an action whose outcome the environment chooses: it returns or it
\* raises.  A name that is not bound in the module when the call is made
\* (NameError) is one way of raising.

\* What separate_stems_demucs may leave in <job_dir>/htdemucs/input: no such
\* directory, or the directory with the stems of one set of stemSets.
DemucsDirs(stemSets) ==
  {NoDir} \cup {[exists |-> TRUE, files |-> S] : S \in stemSets}

\* Separate as it would be if separate_stems_demucs reported a failure by
\* its bool result instead of raising: the pipeline goes on.
SeparateSwallowsError(j, stemSets) ==
  /\ pc[j] = "separate"
  /\ Closed(j)
  /\ \E out \in DemucsDirs(stemSets), raised \in BOOLEAN :
       /\ demucs_out' = [demucs_out EXCEPT ![j] = out]
       /\ sep_result' = [sep_result EXCEPT ![j] =
            IF raised THEN "raised" ELSE IF out.exists THEN "ok" ELSE "no_output"]
       /\ e' = [e EXCEPT ![j] = IF raised THEN SeparationError ELSE @]
       /\ pc' = [pc EXCEPT ![j] = "flatten"]
  /\ GateUnchanged
  /\ UNCHANGED <<status, buffer, stems, midi, i, warned, written>>

\* separate_stems_demucs(input_wav, job_dir): the subprocess writes its nested
\* output and the call returns, or raises (whatever it had written stays).
Separate(j, stemSets) ==
  /\ pc[j] = "separate"
  /\ Closed(j)
  /\ \E out \in DemucsDirs(stemSets), raised \in BOOLEAN :
       /\ demucs_out' = [demucs_out EXCEPT ![j] = out]
       /\ sep_result' = [sep_result EXCEPT ![j] =
            IF raised THEN "raised" ELSE IF out.exists THEN "ok" ELSE "no_output"]
       /\ e' = [e EXCEPT ![j] = IF raised THEN SeparationError ELSE @]
       /\ pc' = [pc EXCEPT ![j] = IF raised THEN "except" ELSE "flatten"]
  /\ GateUnchanged
  /\ UNCHANGED <<status, buffer, stems, midi, i, warned, written>>

\* Flatten as it would be with one stems directory for all jobs, not one
\* under each job's directory.
FlattenShared(j) ==
  /\ pc[j] = "flatten"
  /\ IF demucs_out[j].exists
       THEN /\ stems' = [k \in Jobs |-> stems[k] \cup demucs_out[j].files]
            /\ demucs_out' = [demucs_out EXCEPT ![j] = NoDir]
       ELSE UNCHANGED <<stems, demucs_out>>
  /\ pc' = [pc EXCEPT ![j] = "refine"]
  /\ GateUnchanged
  /\ UNCHANGED <<status, buffer, midi, i, e, sep_result, warned, written>>

\* "if os.path.exists(demucs_out_base)": every file is moved into stems/ and
\* the htdemucs directory removed; a missing directory is passed over.
Flatten(j) ==
  /\ pc[j] = "flatten"
  /\ IF demucs_out[j].exists
       THEN /\ stems' = [stems EXCEPT ![j] = @ \cup demucs_out[j].files]
            /\ demucs_out' = [demucs_out EXCEPT ![j] = NoDir]
       ELSE UNCHANGED <<stems, demucs_out>>
  /\ pc' = [pc EXCEPT ![j] = "refine"]
  /\ GateUnchanged
  /\ UNCHANGED <<status, buffer, midi, i, e, sep_result, warned, written>>

\* update_status("processing_stems", progress=30, ...)
Refine(j) ==
  /\ pc[j] = "refine"
  /\ update_status(j, "processing_stems", 30, NULL)
  /\ pc' = [pc EXCEPT ![j] = "vocals"]
  /\ GateUnchanged
  /\ UNCHANGED <<stems, midi, demucs_out, i, e, sep_result, warned, written>>

\* The files each splitting function may write: split_vocals_basic writes the
\* lead alone for a mono source, lead and backing for a stereo one.
SplitProducts(coarse) ==
  CASE coarse = "vocals.wav" ->
         {{"vocals_lead.wav"}, {"vocals_lead.wav", "vocals_backing.wav"}}
    [] coarse = "drums.wav" -> {{"kick.wav", "snare.wav", "hats.wav"}}
    [] coarse = "other.wav" -> {{"harmony.wav", "guitars.wav", "keys_synth.wav"}}

\* Split as it would be with os.remove(path) in a finally clause: the coarse
\* stem goes whether the split returned or raised.
SplitRemovesAlways(j, here, coarse, next) ==
  /\ pc[j] = here
  /\ Closed(j)
  /\ IF coarse \in stems[j]
       THEN \E raised \in BOOLEAN, product \in SplitProducts(coarse) :
              IF raised
                THEN /\ e' = [e EXCEPT ![j] = SplitError]
                     /\ pc' = [pc EXCEPT ![j] = "except"]
                     /\ stems' = [stems EXCEPT ![j] = @ \ {coarse}]
                ELSE /\ stems' = [stems EXCEPT ![j] = (@ \cup product) \ {coarse}]
                     /\ pc' = [pc EXCEPT ![j] = next]
                     /\ UNCHANGED e
       ELSE /\ pc' = [pc EXCEPT ![j] = next]
            /\ UNCHANGED <<stems, e>>
  /\ GateUnchanged
  /\ UNCHANGED <<status, buffer, midi, demucs_out, i, sep_result, warned, written>>

\* "if os.path.exists(path): split(path, stems_dir); os.remove(path)": a
\* split that raises leaves the coarse stem and goes to the except clause.
Split(j, here, coarse, next) ==
  /\ pc[j] = here
  /\ Closed(j)
  /\ IF coarse \in stems[j]
       THEN \E raised \in BOOLEAN, product \in SplitProducts(coarse) :
              IF raised
                THEN /\ e' = [e EXCEPT ![j] = SplitError]
                     /\ pc' = [pc EXCEPT ![j] = "except"]
                     /\ UNCHANGED stems
                ELSE /\ stems' = [stems EXCEPT ![j] = (@ \cup product) \ {coarse}]
                     /\ pc' = [pc EXCEPT ![j] = next]
                     /\ UNCHANGED e
       ELSE /\ pc' = [pc EXCEPT ![j] = next]
            /\ UNCHANGED <<stems, e>>
  /\ GateUnchanged
  /\ UNCHANGED <<status, buffer, midi, demucs_out, i, sep_result, warned, written>>

SplitVocals(j) == Split(j, "vocals", "vocals.wav", "drums")
SplitDrums(j) == Split(j, "drums", "drums.wav", "other")
SplitOther(j) == Split(j, "other", "other.wav", "midi")

\* update_status("processing_midi", progress=60, ...), then the loop starts.
StartMidi(j) ==
  /\ pc[j] = "midi"
  /\ update_status(j, "processing_midi", 60, NULL)
  /\ i' = [i EXCEPT ![j] = 0]
  /\ pc' = [pc EXCEPT ![j] = "loop"]
  /\ GateUnchanged
  /\ UNCHANGED <<stems, midi, demucs_out, e, sep_result, warned, written>>

\* One turn of the loop as it would be without "if os.path.exists(stem_path)".
LoopNoExistsCheck(j) ==
  /\ pc[j] = "loop"
  /\ Closed(j)
  /\ IF i[j] = Len(midi_map)
       THEN /\ pc' = [pc EXCEPT ![j] = "complete"]
            /\ UNCHANGED <<status, buffer, i>>
       ELSE /\ update_status(j, "processing_midi", LoopProgress(i[j]), NULL)
            /\ pc' = [pc EXCEPT ![j] = "extract"]
            /\ UNCHANGED i
  /\ GateUnchanged
  /\ UNCHANGED <<stems, midi, demucs_out, e, sep_result, warned, written>>

\* One turn of "for i, (stem_name, midi_name) in enumerate(midi_map.items())":
\* an existing stem gets its progress record and then its extraction, a
\* missing one is passed over; after the last entry the loop ends.
Loop(j) ==
  /\ pc[j] = "loop"
  /\ Closed(j)
  /\ IF i[j] = Len(midi_map)
       THEN /\ pc' = [pc EXCEPT ![j] = "complete"]
            /\ UNCHANGED <<status, buffer, i>>
       ELSE IF midi_map[i[j] + 1][1] \in stems[j]
              THEN /\ update_status(j, "processing_midi", LoopProgress(i[j]), NULL)
                   /\ pc' = [pc EXCEPT ![j] = "extract"]
                   /\ UNCHANGED i
              ELSE /\ i' = [i EXCEPT ![j] = @ + 1]
                   /\ UNCHANGED <<status, buffer, pc>>
  /\ GateUnchanged
  /\ UNCHANGED <<stems, midi, demucs_out, e, sep_result, warned, written>>

\* Extract as it would be without the inner try/except: a transcription
\* failure reaches the pipeline's except clause.
ExtractNoCatch(j) ==
  /\ pc[j] = "extract"
  /\ Closed(j)
  /\ \E raised \in BOOLEAN :
       IF raised
         THEN /\ e' = [e EXCEPT ![j] = "transcription failed"]
              /\ pc' = [pc EXCEPT ![j] = "except"]
              /\ UNCHANGED <<midi, i>>
         ELSE /\ midi' = [midi EXCEPT ![j] = @ \cup {midi_map[i[j] + 1][2]}]
              /\ i' = [i EXCEPT ![j] = @ + 1]
              /\ pc' = [pc EXCEPT ![j] = "loop"]
              /\ UNCHANGED e
  /\ GateUnchanged
  /\ UNCHANGED <<status, buffer, stems, demucs_out, sep_result, warned, written>>

\* "try: extract_midi_from_audio(stem_path, output_midi) except Exception:
\* print(...)": the MIDI file is written, or the failure is printed and the
\* loop goes on.
Extract(j) ==
  /\ pc[j] = "extract"
  /\ Closed(j)
  /\ \E raised \in BOOLEAN :
       IF raised
         THEN /\ warned' = [warned EXCEPT ![j] = @ \cup {midi_map[i[j] + 1][1]}]
              /\ UNCHANGED midi
         ELSE /\ midi' = [midi EXCEPT ![j] = @ \cup {midi_map[i[j] + 1][2]}]
              /\ UNCHANGED warned
  /\ i' = [i EXCEPT ![j] = @ + 1]
  /\ pc' = [pc EXCEPT ![j] = "loop"]
  /\ GateUnchanged
  /\ UNCHANGED <<status, buffer, stems, demucs_out, e, sep_result, written>>

\* Complete as it would be if a statement after the success update, still
\* inside try, raised.
CompleteThenRaise(j) ==
  /\ pc[j] = "complete"
  /\ update_status(j, "success", 100, NULL)
  /\ e' = [e EXCEPT ![j] = "raised after success"]
  /\ pc' = [pc EXCEPT ![j] = "except"]
  /\ GateUnchanged
  /\ UNCHANGED <<stems, midi, demucs_out, i, sep_result, warned, written>>

\* update_status("success", progress=100, ...): the last statement of try.
Complete(j) ==
  /\ pc[j] = "complete"
  /\ update_status(j, "success", 100, NULL)
  /\ pc' = [pc EXCEPT ![j] = "return"]
  /\ GateUnchanged
  /\ UNCHANGED <<stems, midi, demucs_out, i, e, sep_result, warned, written>>

\* The handler as it would be without error=str(e): the Failed record
\* keeps update_status's default, error=None.
ExceptNoError(j) ==
  /\ pc[j] = "except"
  /\ Closed(j)
  /\ update_status(j, "failed", 0, NULL)
  /\ pc' = [pc EXCEPT ![j] = "return"]
  /\ GateUnchanged
  /\ UNCHANGED <<stems, midi, demucs_out, i, e, sep_result, warned, written>>

\* "except Exception as e: update_status("failed", error=str(e), ...)":
\* progress is not passed and takes its default, 0.
Except(j) ==
  /\ pc[j] = "except"
  /\ Closed(j)
  /\ update_status(j, "failed", 0, e[j])
  /\ pc' = [pc EXCEPT ![j] = "return"]
  /\ GateUnchanged
  /\ UNCHANGED <<stems, midi, demucs_out, i, e, sep_result, warned, written>>

\* The return as it would be with a failed pipeline run again from its
\* first statement.
ReturnRetries(j) ==
  /\ pc[j] = "return"
  /\ Closed(j)
  /\ IF e[j] # NULL
       THEN /\ pc' = [pc EXCEPT ![j] = "start"]
            /\ UNCHANGED body_exit
       ELSE /\ pc' = [pc EXCEPT ![j] = "exit"]
            /\ body_exit' = [body_exit EXCEPT ![j] = "returned"]
  /\ UNCHANGED <<kwargs, status, buffer, stems, midi, demucs_out, sem_value, i,
                 e, sep_result, warned, written, lastRead, encoder>>

\* start_processing_pipeline returns to run_heavy_task.
Return(j) ==
  /\ pc[j] = "return"
  /\ Closed(j)
  /\ pc' = [pc EXCEPT ![j] = "exit"]
  /\ body_exit' = [body_exit EXCEPT ![j] = "returned"]
  /\ UNCHANGED <<kwargs, status, buffer, stems, midi, demucs_out, sem_value, i,
                 e, sep_result, warned, written, lastRead, encoder>>

(* ------------------- midi_engine.extract_and_generate_midi ------------ *)

\* Bounds of the Songs given to the encoder: the tracks of a Song and the
\* notes of all its tracks together.
MaxTracks == 2
MaxNotes == 2

\* mid.ticks_per_beat
ticks_per_beat == 480

\* The tokens of a response text: the two markers, a token that json.loads
\* parses, one it rejects, prose, and the text re.sub puts for a block.
START == "<MIDI_DATA>"
END == "</MIDI_DATA>"
JSON == "{json}"
Garbage == "not json"
Prose == "prose"
Replacement == "[MIDI File Generated]"

\* A value under a key of the parsed JSON: the key is missing, its value is
\* not a number (null, a word), or it is the number val.  Beats are held in
\* thousandths: val 999 under start_time is the JSON number 0.999.
Absent == [kind |-> "absent", val |-> 0]
Bad == [kind |-> "bad", val |-> 0]
Num(n) == [kind |-> "num", val |-> n]

Note(pitch, velocity, start_time, duration) ==
  [pitch |-> pitch, velocity |-> velocity, start_time |-> start_time,
   duration |-> duration]

\* The notes the Songs are made of: on the beat, back to back with distinct
\* pitches, every key missing, off the tick grid, before time zero, ending
\* before it starts, and one malformed value under each key.
NotePool ==
  { Note(Num(40), Num(90), Num(0), Num(2000)),
    Note(Num(62), Num(100), Num(2000), Num(1000)),
    Note(Absent, Absent, Absent, Absent),
    Note(Num(64), Num(80), Num(999), Num(500)),
    Note(Num(65), Num(80), Num(-1000), Num(3000)),
    Note(Num(67), Num(80), Num(3000), Num(-1000)),
    Note(Bad, Num(90), Num(0), Num(1000)),
    Note(Num(60), Bad, Num(0), Num(1000)),
    Note(Num(60), Num(90), Bad, Num(1000)),
    Note(Num(60), Num(90), Num(0), Bad) }

\* The key "instrument" is missing.
NoKey == "<no key>"

TrackData(instrument, notes) == [instrument |-> instrument, notes |-> notes]

\* The value under "time_signature": missing, a list, or not a list (null).
NoTimeSig == [kind |-> "absent", items |-> <<>>]
TimeSig(items) == [kind |-> "list", items |-> items]
BadTimeSig == [kind |-> "bad", items |-> <<>>]

\* What json.loads returns: a dict, or a value that is not a dict.
Song(tempo, time_signature, tracks) ==
  [kind |-> "object", tempo |-> tempo, time_signature |-> time_signature,
   tracks |-> tracks]
NotADict == [kind |-> "other", tempo |-> Absent, time_signature |-> NoTimeSig,
             tracks |-> <<>>]
NoData == [kind |-> "none", tempo |-> Absent, time_signature |-> NoTimeSig,
           tracks |-> <<>>]

\* The note lists of at most n notes.
NoteSeqs(n) == UNION {[1..m -> NotePool] : m \in 0..n}

\* The track lists of at most k tracks with at most n notes in all.
RECURSIVE TrackSeqs(_, _)
TrackSeqs(k, n) ==
  IF k = 0 THEN {<<>>}
  ELSE {<<>>} \cup
       UNION {{<<TrackData("Bass", notes)>> \o rest :
                 rest \in TrackSeqs(k - 1, n - Len(notes))} :
              notes \in NoteSeqs(n)}

\* Songs that differ in their notes.
NoteSongs == {Song(Num(100), NoTimeSig, tracks) :
                tracks \in TrackSeqs(MaxTracks, MaxNotes)}

Tempos == {Absent, Num(100), Num(90), Num(0), Bad}

TimeSigs == {NoTimeSig, TimeSig(<<Num(4), Num(4)>>), TimeSig(<<Num(3), Num(4)>>),
             TimeSig(<<Num(3)>>), TimeSig(<<>>), TimeSig(<<Bad, Bad>>),
             BadTimeSig}

\* Songs that differ in their tempo, time signature, instrument names and
\* number of tracks, each track with the same one note.
HeaderSongs ==
  {Song(tempo, time_sig,
        [t \in 1..k |-> TrackData(instrument,
                          <<Note(Num(40), Num(90), Num(0), Num(2000))>>)]) :
     tempo \in Tempos, time_sig \in TimeSigs, k \in 0..MaxTracks,
     instrument \in {NoKey, "Bass"}}

Songs == NoteSongs \cup HeaderSongs \cup {NotADict}

\* Response texts whose first block holds the JSON token.
BlockTexts ==
  { <<START, JSON, END>>,
    <<Prose, START, JSON, END, Prose>>,
    <<Prose, START, JSON, END, Prose, START, Garbage, END>> }

\* Response texts without a block, or whose first block json.loads rejects.
OtherTexts ==
  { <<>>, <<Prose>>,
    <<Prose, START, JSON>>,
    <<Prose, END, JSON, START>>,
    <<JSON, END>>,
    <<START, END>>,
    <<Prose, START, Garbage, END, Prose>>,
    <<START, START, JSON, END>>,
    <<START, Garbage, END, START, JSON, END>> }

\* The positions of a token in a text.
Positions(text, token) == {k \in 1..Len(text) : text[k] = token}

Least(S) == CHOOSE k \in S : \A l \in S : k <= l

NoMatch == [found |-> FALSE, start |-> 0, end |-> 0]

\* The search as it would be with a pattern whose end marker may be missing:
\* a start marker alone opens a block that runs to the end of the text.
re_search_open(text) ==
  IF Positions(text, START) # {}
    THEN LET p == Least(Positions(text, START))
         IN [found |-> TRUE, start |-> p,
             end |-> IF \E q \in Positions(text, END) : p < q
                       THEN Least({q \in Positions(text, END) : p < q})
                       ELSE Len(text) + 1]
    ELSE NoMatch

\* re.search(r"<MIDI_DATA>(.*?)</MIDI_DATA>", text, re.DOTALL): the leftmost
\* start marker that has an end marker after it, up to the nearest such end
\* marker.
re_search(text) ==
  IF \E p \in Positions(text, START) : \E q \in Positions(text, END) : p < q
    THEN LET p == Least(Positions(text, START))
         IN [found |-> TRUE, start |-> p,
             end |-> Least({q \in Positions(text, END) : p < q})]
    ELSE NoMatch

\* match.group(1): what stands between the two markers.
group1(text, match) == SubSeq(text, match.start + 1, match.end - 1)

\* json.loads(json_str) raises JSONDecodeError unless the string is JSON.
JSONDecodeError(json_str) == json_str # <<JSON>>

\* re.sub(r"<MIDI_DATA>.*?</MIDI_DATA>", replacement, text, flags=re.DOTALL):
\* every match, left to right, gives way to the replacement.
RECURSIVE re_sub(_)
re_sub(text) ==
  LET match == re_search(text)
  IN IF match.found
       THEN SubSeq(text, 1, match.start - 1) \o <<Replacement>>
            \o re_sub(SubSeq(text, match.end + 1, Len(text)))
       ELSE text

\* int(x) of the quotient num / den, den > 0: truncation toward zero.
int(num, den) == IF num >= 0 THEN num \div den ELSE -((-num) \div den)

\* round(x) of the quotient num / den, num >= 0, den > 0: to the nearest
\* integer, a tie to the even one.
round(num, den) ==
  LET q == num \div den
      r == num % den
  IN IF 2 * r < den THEN q
     ELSE IF 2 * r > den THEN q + 1
     ELSE IF q % 2 = 0 THEN q ELSE q + 1

\* mido.bpm2tempo(bpm): int(round(60 * 1e6 / bpm)).
bpm2tempo(bpm) == round(60000000, bpm)

\* dict.get(key, default) of a number: the default stands in for a missing
\* key only.
get(field, default) == IF field.kind = "absent" THEN default ELSE field.val

\* A message of a track.  A note message carries note and velocity, set_tempo
\* tempo, time_signature numerator and denominator, track_name name.
Msg(type, time, note, velocity, tempo, numerator, denominator, name) ==
  [type |-> type, time |-> time, note |-> note, velocity |-> velocity,
   tempo |-> tempo, numerator |-> numerator, denominator |-> denominator,
   name |-> name]

Message(type, note, velocity, time) == Msg(type, time, note, velocity, 0, 0, 0, "")
set_tempo(tempo) == Msg("set_tempo", 0, 0, 0, tempo, 0, 0, "")
time_signature(numerator, denominator) ==
  Msg("time_signature", 0, 0, 0, 0, numerator, denominator, "")
track_name(name) == Msg("track_name", 0, 0, 0, 0, 0, 0, name)
end_of_track == Msg("end_of_track", 0, 0, 0, 0, 0, 0, "")

\* The two events as they would be with the end of a note written the short
\* way, as a note_on of velocity 0.
NoteEventsRunningStatus(note) ==
  LET pitch == get(note.pitch, 60)
      velocity == get(note.velocity, 100)
      start_time == get(note.start_time, 0)
      duration == get(note.duration, 1000)
      start_tick == int(start_time * ticks_per_beat, 1000)
      end_tick == int((start_time + duration) * ticks_per_beat, 1000)
  IN << [type |-> "note_on", note |-> pitch, velocity |-> velocity,
         time |-> start_tick],
        [type |-> "note_on", note |-> pitch, velocity |-> 0,
         time |-> end_tick] >>

\* The two events of one note: start_tick = int(start_time * ticks_per_beat),
\* end_tick = int((start_time + duration) * ticks_per_beat).
NoteEvents(note) ==
  LET pitch == get(note.pitch, 60)
      velocity == get(note.velocity, 100)
      start_time == get(note.start_time, 0)
      duration == get(note.duration, 1000)
      start_tick == int(start_time * ticks_per_beat, 1000)
      end_tick == int((start_time + duration) * ticks_per_beat, 1000)
  IN << [type |-> "note_on", note |-> pitch, velocity |-> velocity,
         time |-> start_tick],
        [type |-> "note_off", note |-> pitch, velocity |-> 0,
         time |-> end_tick] >>

\* events after the loop over the notes of a track.
RECURSIVE AllEvents(_)
AllEvents(notes) ==
  IF notes = <<>> THEN <<>>
  ELSE NoteEvents(Head(notes)) \o AllEvents(Tail(notes))

\* The sort key (x["time"], x["type"] == "note_on") with time alone.
TimeOnlyLE(a, b) == a.time <= b.time

\* key(a) <= key(b) for key = (x["time"], x["type"] == "note_on"): False
\* sorts before True.
KeyLE(a, b) ==
  \/ a.time < b.time
  \/ a.time = b.time /\ (a.type = "note_on" => b.type = "note_on")

\* x put into a sorted list behind every element whose key is not greater.
RECURSIVE Insert(_, _)
Insert(x, sorted) ==
  IF sorted = <<>> THEN <<x>>
  ELSE IF KeyLE(Head(sorted), x) THEN <<Head(sorted)>> \o Insert(x, Tail(sorted))
  ELSE <<x>> \o sorted

\* events.sort(key=...): list.sort is stable.
RECURSIVE sort(_)
sort(events) ==
  IF events = <<>> THEN <<>>
  ELSE Insert(events[Len(events)], sort(SubSeq(events, 1, Len(events) - 1)))

\* The loop over the sorted events: delta_time = event["time"] - last_time,
\* then last_time = event["time"].
RECURSIVE DeltaTimes(_, _)
DeltaTimes(events, last_time) ==
  IF events = <<>> THEN <<>>
  ELSE <<Message(Head(events).type, Head(events).note, Head(events).velocity,
                 Head(events).time - last_time)>>
       \o DeltaTimes(Tail(events), Head(events).time)

\* data.get("time_signature", [4, 4])
time_sig(d) ==
  IF d.time_signature.kind = "absent" THEN TimeSig(<<Num(4), Num(4)>>)
  ELSE d.time_signature

\* int() or float() of a value that is not a number raises.
NoteRaises(note) ==
  \/ note.pitch.kind = "bad" \/ note.velocity.kind = "bad"
  \/ note.start_time.kind = "bad" \/ note.duration.kind = "bad"

\* An exception between json.loads and mid.save: data.get on a value that is
\* not a dict, bpm2tempo of zero or of no number, len() of a time signature
\* that is no list, or MetaMessage with a numerator or denominator that is no
\* number, when there is a first track to put it on, and a note that raises.
BuildRaises(d) ==
  \/ d.kind = "other"
  \/ d.tempo.kind = "bad" \/ d.tempo = Num(0)
  \/ /\ Len(d.tracks) >= 1
     /\ \/ time_sig(d).kind = "bad"
        \/ /\ Len(time_sig(d).items) >= 2
           /\ \E k \in 1..2 : time_sig(d).items[k].kind = "bad"
  \/ \E t \in 1..Len(d.tracks) : \E n \in 1..Len(d.tracks[t].notes) :
       NoteRaises(d.tracks[t].notes[n])

\* The messages put on the first track only: set_tempo, and time_signature
\* when the list has two elements or more.
FirstTrackMeta(d) ==
  <<set_tempo(bpm2tempo(get(d.tempo, 120)))>>
  \o (IF Len(time_sig(d).items) >= 2
        THEN <<time_signature(time_sig(d).items[1].val, time_sig(d).items[2].val)>>
        ELSE <<>>)

\* events of track t after the sort.
SortedEvents(d, t) == sort(AllEvents(d.tracks[t].notes))

\* One pass of the loop over data["tracks"]: the track appended to mid.
MidiTrack(d, t) ==
  (IF t = 1 THEN FirstTrackMeta(d) ELSE <<>>)
  \o <<track_name(IF d.tracks[t].instrument = NoKey THEN "Track"
                  ELSE d.tracks[t].instrument)>>
  \o DeltaTimes(SortedEvents(d, t), 0)
  \o <<end_of_track>>

\* mid after the loop.
MidiFile(d) == [t \in 1..Len(d.tracks) |-> MidiTrack(d, t)]

\* f"generated_{uuid.uuid4().hex[:8]}.mid"
Filename == "generated_<uuid>.mid"

\* mido writes a track after all its messages are encoded, and encoding a
\* message whose time is negative raises ValueError.
BadTrack(track) == \E m \in 1..Len(track) : track[m].time < 0

SaveRaises(mid) == \E t \in 1..Len(mid) : BadTrack(mid[t])

\* mid.save(midi_path): the file is opened, the header written, then track
\* after track; on an exception the file keeps what was written before it.
save(mid) ==
  IF SaveRaises(mid)
    THEN [name |-> Filename, complete |-> FALSE,
          tracks |-> SubSeq(mid, 1, Least({t \in 1..Len(mid) : BadTrack(mid[t])}) - 1)]
    ELSE [name |-> Filename, complete |-> TRUE, tracks |-> mid]

\* A file an earlier call left in output_dir.
OlderFile == [name |-> "generated_<older uuid>.mid", complete |-> TRUE,
              tracks |-> <<>>]

\* The value of call before the function is called, and in the runs that
\* never call it.
NoCall == [state |-> "idle", clean_text |-> <<>>, midi_filename |-> NULL,
           events |-> <<>>, mid |-> <<>>, printed |-> ""]

\* The return without a file as it would be with the substitution made
\* before the try block.
Stripped(text, printed) ==
  [state |-> "returned", clean_text |-> re_sub(text), midi_filename |-> NULL,
   events |-> <<>>, mid |-> <<>>, printed |-> printed]

\* The return without a file: clean_text = response_text, midi_filename = None.
Unchanged(text, printed) ==
  [state |-> "returned", clean_text |-> text, midi_filename |-> NULL,
   events |-> <<>>, mid |-> <<>>, printed |-> printed]

\* The function as it would be with midi_filename assigned to the result
\* before mid.save is called: a save that raises leaves the name in it.
NamedBeforeSave(text, d) ==
  LET match == re_search(text)
  IN IF ~match.found THEN Unchanged(text, "")
     ELSE IF JSONDecodeError(group1(text, match))
       THEN Unchanged(text, "Failed to parse MIDI JSON")
     ELSE IF BuildRaises(d)
       THEN Unchanged(text, "Error generating MIDI")
     ELSE [state |-> "returned",
           clean_text |-> IF SaveRaises(MidiFile(d)) THEN text ELSE re_sub(text),
           midi_filename |-> Filename,
           events |-> [t \in 1..Len(d.tracks) |-> SortedEvents(d, t)],
           mid |-> MidiFile(d),
           printed |-> IF SaveRaises(MidiFile(d)) THEN "Error generating MIDI" ELSE ""]

\* extract_and_generate_midi(response_text): the locals at the return.  mid
\* and the sorted events of its tracks are kept once the loop over the
\* tracks has ended, whether mid.save raises or not.
extract_and_generate_midi(text, d) ==
  LET match == re_search(text)
  IN IF ~match.found THEN Unchanged(text, "")
     ELSE IF JSONDecodeError(group1(text, match))
       THEN Unchanged(text, "Failed to parse MIDI JSON")
     ELSE IF BuildRaises(d)
       THEN Unchanged(text, "Error generating MIDI")
     ELSE [state |-> "returned",
           clean_text |-> IF SaveRaises(MidiFile(d)) THEN text ELSE re_sub(text),
           midi_filename |-> IF SaveRaises(MidiFile(d)) THEN NULL ELSE Filename,
           events |-> [t \in 1..Len(d.tracks) |-> SortedEvents(d, t)],
           mid |-> MidiFile(d),
           printed |-> IF SaveRaises(MidiFile(d)) THEN "Error generating MIDI"
                       ELSE ""]

\* The files extract_and_generate_midi leaves in output_dir: none unless
\* mid.save was reached.
FilesWritten(text, d) ==
  LET match == re_search(text)
  IN IF match.found /\ ~JSONDecodeError(group1(text, match)) /\ ~BuildRaises(d)
       THEN {save(MidiFile(d))}
       ELSE {}

\* A call of extract_and_generate_midi on a response text.
Encode ==
  /\ call.state = "ready"
  /\ call' = extract_and_generate_midi(response_text, data)
  /\ output_dir' = output_dir \cup FilesWritten(response_text, data)
  /\ UNCHANGED <<response_text, data>>
  /\ UNCHANGED <<pc, kwargs, status, buffer, stems, midi, demucs_out, sem_value,
                 i, e, sep_result, warned, body_exit, written, lastRead>>

(* --------------------------- specifications --------------------------- *)

\* No job is submitted and extract_and_generate_midi is not called.
Init ==
  /\ PipelineInit
  /\ response_text = <<>>
  /\ data = NoData
  /\ output_dir = {}
  /\ call = NoCall

\* The background task of job j: run_heavy_task around the pipeline.
Task(j, stemSets) ==
  \/ Acquire(j) \/ CallFunc(j)
  \/ StartStems(j) \/ CloseStatus(j)
  \/ Separate(j, stemSets) \/ Flatten(j) \/ Refine(j)
  \/ SplitVocals(j) \/ SplitDrums(j) \/ SplitOther(j)
  \/ StartMidi(j) \/ Loop(j) \/ Extract(j)
  \/ Complete(j) \/ Except(j) \/ Return(j) \/ Release(j)

\* One job, every set of stems Demucs may deliver, and status polls of any
\* identifier.
Next ==
  \/ \E j \in OneJob :
       process_audio(j) \/ run_pipeline(j) \/ Task(j, SUBSET CoarseStems)
  \/ \E j \in Jobs : get_job_status(j)

Spec == Init /\ [][Next]_vars

\* Several jobs share the semaphore; Demucs delivers the bass stem, the one
\* coarse stem that is transcribed as it is.
GateStems == {{"bass.wav"}}

GateNext ==
  \E j \in Jobs : process_audio(j) \/ run_pipeline(j) \/ Task(j, GateStems)

GateSpec == Init /\ [][GateNext]_vars

\* The event loop runs every ready task and a worker thread runs on: each
\* background task that can take a step eventually takes one.
FairGateSpec == GateSpec /\ \A j \in Jobs : WF_vars(Task(j, GateStems))

\* A response text arrives: one with a block that holds any of the Songs, or
\* one without a block that parses; output_dir is empty or holds a file.
EncoderInit ==
  /\ PipelineInit
  /\ \/ response_text \in BlockTexts /\ data \in Songs
     \/ response_text \in OtherTexts /\ data = NoData
  /\ output_dir \in {{}, {OlderFile}}
  /\ call = [NoCall EXCEPT !.state = "ready"]

EncoderNext == Encode

EncoderSpec == EncoderInit /\ [][EncoderNext]_vars

(* ------------------------------ properties ---------------------------- *)

\* The states of the records persisted for job j, oldest first.
StatesOf(j) == [k \in 1..Len(written[j]) |-> written[j][k].state]

Rank(state) ==
  CASE state = "initialized" -> 1
    [] state = "processing_stems" -> 2
    [] state = "processing_midi" -> 3
    [] state = "success" -> 4
    [] OTHER -> 0

\* One step of Initialized, ProcessingStems, ProcessingMidi, Succeeded, a
\* repeat of the same state, or Failed from a state that is not terminal.
LegalStep(a, b) ==
  \/ a = b
  \/ Rank(a) > 0 /\ Rank(b) = Rank(a) + 1
  \/ Rank(a) \in 1..3 /\ b = "failed"

\* The background task of job j has ended: func returned or raised.
Ended(j) == pc[j] \in {"exit", "done"}

\* Job j holds a slot of the semaphore.
Holding(j) == pc[j] \notin {"none", "queued", "done"}

\* C1: the states persisted for a job, repeats ignored, form a prefix of
\* Initialized, ProcessingStems, ProcessingMidi, Succeeded, or such a prefix
\* stopped at a non-terminal state and followed by Failed.
C1_StateSequence ==
  \A j \in Jobs :
    written[j] # <<>> =>
      /\ StatesOf(j)[1] = "initialized"
      /\ \A k \in 1..(Len(written[j]) - 1) :
           LegalStep(StatesOf(j)[k], StatesOf(j)[k + 1])

C1_Witness ==
  \E j \in Jobs :
    /\ Len(written[j]) >= 4
    /\ written[j][Len(written[j])].state = "success"

\* C2 (as claimed): every record persisted after the first has a progress
\* at least that of the record before it, the Failed record included.
C2_ProgressNeverDecreases ==
  \A j \in Jobs :
    \A k \in 1..(Len(written[j]) - 1) :
      written[j][k + 1].progress >= written[j][k].progress

\* C3: with one slot, at most one job is inside run_heavy_task's protected
\* body at any instant.
C3_OneBodyAtATime ==
  Cardinality({j \in Jobs : Holding(j)}) <= MAX_CONCURRENT_HEAVY_JOBS

C3_Witness ==
  \E j, k \in Jobs :
    /\ pc[j] = "separate"
    /\ pc[k] = "queued"
    /\ sem_value = 0

\* C4: a slot taken is given back whether the body returns or raises: the
\* free slots are back at the limit whenever no job holds one, every holder
\* ends released, and every job blocked on the semaphore gets its slot.
C4_SlotAlwaysReleased ==
  /\ []((\A j \in Jobs : ~Holding(j)) => sem_value = MAX_CONCURRENT_HEAVY_JOBS)
  /\ \A j \in Jobs : Holding(j) ~> (pc[j] = "done")
  /\ \A j \in Jobs : (pc[j] = "queued") ~> Holding(j)

C4_Witness ==
  \E j, k \in Jobs :
    /\ pc[j] = "done"
    /\ body_exit[j] = "raised"
    /\ Holding(k)

\* C5 (as claimed): a job submitted through process_audio has a persisted
\* state of Succeeded or Failed once its background task has ended.
C5_SubmittedJobEndsTerminal ==
  \A j \in Jobs :
    (kwargs[j] # {} /\ pc[j] = "done") =>
      status[j].json.state \in {"success", "failed"}

\* The job's pipeline entered the transcription stage.
EnteredMidi(j) ==
  \E k \in 1..Len(written[j]) : written[j][k].state = "processing_midi"

\* C6: transcription failures do not fail the job: once the transcription
\* stage was entered the job ends Succeeded, and its final record lists one
\* MIDI artifact for each mapped stem present whose transcription did not
\* raise (five when one of six raised).
C6_TranscriptionFailureTolerated ==
  \A j \in Jobs :
    (EnteredMidi(j) /\ Ended(j)) =>
      /\ status[j].json.state = "success"
      /\ status[j].json.midi =
           {MidiOf(s) : s \in (MappedStems \cap stems[j]) \ warned[j]}
      /\ Cardinality(status[j].json.midi) =
           Cardinality(MappedStems \cap stems[j]) - Cardinality(warned[j])

C6_Witness ==
  \E j \in Jobs :
    /\ Ended(j)
    /\ MappedStems \subseteq stems[j]
    /\ Cardinality(warned[j]) = 1
    /\ status[j].json.state = "success"
    /\ Cardinality(status[j].json.midi) = 5

\* C7: when the separation call raises, no record of the job is ever
\* ProcessingMidi or Succeeded, the job ends Failed with the error text in
\* its record, and the failure handling (the except clause and the write of
\* the Failed record) removes no file of the job's directories.
C7_SeparationFailureFatal ==
  /\ [](\A j \in Jobs :
          sep_result[j] = "raised" =>
            /\ buffer[j].state \notin {"processing_midi", "success"}
            /\ \A k \in 1..Len(written[j]) :
                 written[j][k].state \notin {"processing_midi", "success"}
            /\ Ended(j) =>
                 /\ status[j].json.state = "failed"
                 /\ status[j].json.error = SeparationError)
  /\ [][\A j \in Jobs :
          (pc[j] = "except" \/ buffer[j].state = "failed") =>
            /\ stems[j] \subseteq stems'[j]
            /\ midi[j] \subseteq midi'[j]
            /\ demucs_out'[j] = demucs_out[j]]_vars

C7_Witness ==
  \E j \in Jobs :
    /\ sep_result[j] = "raised"
    /\ Ended(j)
    /\ status[j].json.state = "failed"
    /\ demucs_out[j].exists
    /\ demucs_out[j].files # {}

\* C8 (as claimed): a separation call that returns without the nested
\* output directory ends the job Failed, with the error in the record.
C8_MissingOutputFatal ==
  \A j \in Jobs :
    (sep_result[j] = "no_output" /\ Ended(j)) =>
      /\ status[j].json.state = "failed"
      /\ status[j].json.error # NULL

\* C9 (as claimed): a status read never meets a truncated record: it
\* returns a complete snapshot (or, for a missing file, the not-found dict).
C9_NoTornRead ==
  lastRead.body.content \in {"none", "not_found", "json"}

\* C10 (as claimed): the status query answers Not-Found (404) exactly when
\* no record exists for the identifier.
C10_NotFoundIffNoRecord ==
  lastRead.job # 0 =>
    (lastRead.code = 404 <=> lastRead.body.content = "not_found")

\* The record initialize_job persists for job j.
Initialized(j) ==
  [job_id |-> j, state |-> "initialized", progress |-> 0, error |-> NULL,
   stems |-> {}, midi |-> {}]

\* C11: a submission is never held back by the semaphore, whoever holds it;
\* a job whose identifier has been returned has the Initialized record with
\* progress 0 as its first persisted record, and that record is the only one
\* until the background task has taken its slot.
C11_SubmissionDoesNotWait ==
  \A j \in Jobs :
    /\ pc[j] = "none" => ENABLED process_audio(j)
    /\ pc[j] # "none" => /\ Len(written[j]) >= 1
                         /\ written[j][1] = Initialized(j)
    /\ pc[j] = "queued" => written[j] = <<Initialized(j)>>

\* C11 witness: a job submitted through process_audio holds the answer's
\* identifier and its one record while another job holds the only slot.
C11_Witness ==
  \E j, k \in Jobs :
    /\ j # k
    /\ pc[j] = "queued"
    /\ kwargs[j] = {"separation_model"}
    /\ written[j] = <<Initialized(j)>>
    /\ Holding(k)
    /\ pc[k] \in {"separate", "loop"}
    /\ sem_value = 0

\* status.json of job j holds a Succeeded or a Failed record.
Terminal(j) ==
  /\ status[j].content = "json"
  /\ status[j].json.state \in {"success", "failed"}

\* C12: once status.json of a job holds Succeeded or Failed, no step writes
\* to it or persists another record of the job.
C12_NoWriteAfterTerminal ==
  [][\A j \in Jobs :
       Terminal(j) => /\ status'[j] = status[j]
                      /\ written'[j] = written[j]
                      /\ buffer'[j] = buffer[j]]_vars

\* C12 witness: a job has released its slot after a Succeeded or Failed
\* record that followed two writes or more, and a poll after that read the
\* same record.
C12_Witness ==
  \E j \in Jobs :
    /\ pc[j] = "done"
    /\ Terminal(j)
    /\ Len(written[j]) >= 3
    /\ written[j][Len(written[j])] = status[j].json
    /\ lastRead.job = j
    /\ lastRead.body.content = "json"
    /\ lastRead.body.json = status[j].json

\* The call has returned with a file name: the encode went through.
Encoded == call.state = "returned" /\ call.midi_filename # NULL

\* The file the call has written and named.
Written == {f \in output_dir : f.name = call.midi_filename}

\* The positions of the note messages of a track.
NoteIdx(track) ==
  {m \in 1..Len(track) : track[m].type \in {"note_on", "note_off"}}

\* The note messages of a track, in order.
NoteMsgs(track) ==
  SelectSeq(track, LAMBDA msg : msg.type \in {"note_on", "note_off"})

\* The sum of the times of the first m messages of a track.
RECURSIVE SumTimes(_, _)
SumTimes(track, m) == IF m = 0 THEN 0 ELSE SumTimes(track, m - 1) + track[m].time

\* C13: in every track of an encoded file the note messages are the sorted
\* events, one for one; the events' absolute ticks never descend, and at one
\* tick no note-on stands before a note-off, whatever the pitches.
C13_NoteOffBeforeNoteOn ==
  Encoded =>
    \A f \in Written : \A t \in 1..Len(f.tracks) :
      LET events == call.events[t]
          msgs == NoteMsgs(f.tracks[t])
      IN /\ Len(msgs) = Len(events)
         /\ \A k \in 1..Len(events) :
              msgs[k].type = events[k].type /\ msgs[k].note = events[k].note
         /\ \A a, b \in 1..Len(events) :
              a < b => /\ events[a].time <= events[b].time
                       /\ ~ /\ events[a].time = events[b].time
                            /\ events[a].type = "note_on"
                            /\ events[b].type = "note_off"

\* C13 witness: an encoded track where a note-off and the note-on of another
\* pitch share a tick, from a note list that names the starting note first.
C13_Witness ==
  /\ Encoded
  /\ \E t \in 1..Len(call.events) : \E a, b \in 1..Len(call.events[t]) :
       /\ a < b
       /\ call.events[t][a].type = "note_off"
       /\ call.events[t][b].type = "note_on"
       /\ call.events[t][a].time = call.events[t][b].time
       /\ call.events[t][a].note # call.events[t][b].note
       /\ data.tracks[t].notes[1].pitch = Num(call.events[t][b].note)

\* C14 (as claimed): in every track the encoder builds, from any note list,
\* no message time is negative, and the times up to and including a note
\* message add up to the absolute tick of its event.
C14_DeltasSumToAbsoluteTick ==
  call.state = "returned" =>
    \A t \in 1..Len(call.mid) :
      LET track == call.mid[t]
      IN /\ \A m \in 1..Len(track) : track[m].time >= 0
         /\ \A m \in NoteIdx(track) :
              SumTimes(track, m) =
                call.events[t][Cardinality({n \in NoteIdx(track) : n <= m})].time

\* n is an integer nearest to the quotient num / den, den > 0.
IsNearest(n, num, den) ==
  LET diff == n * den - num
  IN IF diff >= 0 THEN 2 * diff <= den ELSE 2 * (-diff) <= den

\* The loop over the tracks has ended: mid and the events are built.
Built == call.state = "returned" /\ Len(call.mid) = Len(data.tracks)
         /\ Len(call.mid) > 0

\* C15 (as claimed): every note gives exactly two events, a note-on at the
\* tick nearest to start_time * 480 and a note_off message at the tick
\* nearest to (start_time + duration) * 480.
C15_TicksRounded ==
  Built =>
    \A t \in 1..Len(data.tracks) :
      LET notes == data.tracks[t].notes
          events == call.events[t]
      IN /\ Len(events) = 2 * Len(notes)
         /\ \A n \in 1..Len(notes) :
              /\ \E k \in 1..Len(events) :
                   /\ events[k].type = "note_on"
                   /\ events[k].note = get(notes[n].pitch, 60)
                   /\ IsNearest(events[k].time,
                                get(notes[n].start_time, 0) * ticks_per_beat, 1000)
              /\ \E k \in 1..Len(events) :
                   /\ events[k].type = "note_off"
                   /\ events[k].note = get(notes[n].pitch, 60)
                   /\ IsNearest(events[k].time,
                                (get(notes[n].start_time, 0)
                                 + get(notes[n].duration, 1000)) * ticks_per_beat,
                                1000)

\* The places <<t, m>> of the messages of a type in the tracks of a file.
Places(tracks, type) ==
  UNION {{<<t, m>> : m \in {k \in 1..Len(tracks[t]) : tracks[t][k].type = type}} :
         t \in 1..Len(tracks)}

\* C16 (as claimed): the file of any encoded Song has exactly one set_tempo
\* message, on the first track, with the value nearest to 60,000,000 / bpm
\* (bpm 120 by default), and exactly one time_signature message, on the first
\* track.
C16_OneTempoOneTimeSignature ==
  Encoded =>
    \A f \in Written :
      /\ Cardinality(Places(f.tracks, "set_tempo")) = 1
      /\ \A p \in Places(f.tracks, "set_tempo") :
           /\ p[1] = 1
           /\ IsNearest(f.tracks[1][p[2]].tempo, 60000000, get(data.tempo, 120))
      /\ Cardinality(Places(f.tracks, "time_signature")) = 1
      /\ \A p \in Places(f.tracks, "time_signature") : p[1] = 1

\* The first block of the response text is the JSON of a dict.
ParsedSong ==
  /\ re_search(response_text).found
  /\ group1(response_text, re_search(response_text)) = <<JSON>>
  /\ data.kind = "object"

\* The value under time_signature is missing or is not a pair of numbers.
MalformedTimeSig(d) ==
  \/ d.time_signature.kind \in {"absent", "bad"}
  \/ Len(d.time_signature.items) < 2
  \/ \E k \in 1..Len(d.time_signature.items) : d.time_signature.items[k].kind # "num"

\* Every value of the note is a number or missing, and no tick is negative.
SoundNote(note) ==
  /\ \A field \in {note.pitch, note.velocity, note.start_time, note.duration} :
       field.kind # "bad"
  /\ get(note.start_time, 0) >= 0
  /\ get(note.start_time, 0) + get(note.duration, 1000) >= 0

\* The tempo is a positive number or missing and there is a first track.
SoundTempoAndTracks(d) ==
  /\ d.tempo.kind # "bad"
  /\ get(d.tempo, 120) > 0
  /\ Len(d.tracks) >= 1

\* C17 (as claimed): a Song with a missing or malformed time signature, and
\* nothing else wrong with it, is encoded to a file whose first track has the
\* time_signature message 4/4.
C17_TimeSignatureDefaults ==
  ( /\ call.state = "returned"
    /\ ParsedSong
    /\ MalformedTimeSig(data)
    /\ SoundTempoAndTracks(data)
    /\ \A t \in 1..Len(data.tracks) : \A n \in 1..Len(data.tracks[t].notes) :
         SoundNote(data.tracks[t].notes[n]) )
  => /\ Encoded
     /\ \A f \in Written :
          \E m \in 1..Len(f.tracks[1]) :
            /\ f.tracks[1][m].type = "time_signature"
            /\ f.tracks[1][m].numerator = 4
            /\ f.tracks[1][m].denominator = 4

\* The number under a key, or the default when the key is missing or its
\* value is not a number.
OrDefault(field, default) == IF field.kind = "num" THEN field.val ELSE default

\* The note with every missing or malformed value replaced by its default.
Defaulted(note) ==
  Note(Num(OrDefault(note.pitch, 60)), Num(OrDefault(note.velocity, 100)),
       Num(OrDefault(note.start_time, 0)), Num(OrDefault(note.duration, 1000)))

\* C18 (as claimed): a Song with notes that have missing or malformed values,
\* and nothing else wrong with it, is encoded, each such value replaced by
\* its default: pitch 60, velocity 100, start_time 0, duration 1.
C18_MalformedFieldDefaults ==
  ( /\ call.state = "returned"
    /\ ParsedSong
    /\ ~MalformedTimeSig(data) \/ data.time_signature.kind = "absent"
    /\ SoundTempoAndTracks(data)
    /\ \A t \in 1..Len(data.tracks) : \A n \in 1..Len(data.tracks[t].notes) :
         SoundNote(Defaulted(data.tracks[t].notes[n])) )
  => /\ Encoded
     /\ \A t \in 1..Len(data.tracks) : \A n \in 1..Len(data.tracks[t].notes) :
          \E k \in 1..Len(call.events[t]) :
            /\ call.events[t][k].type = "note_on"
            /\ call.events[t][k].note = OrDefault(data.tracks[t].notes[n].pitch, 60)
            /\ call.events[t][k].velocity =
                 OrDefault(data.tracks[t].notes[n].velocity, 100)

\* The text has a start marker with an end marker somewhere after it.
MarkerPair(text) ==
  \E p, q \in 1..Len(text) : p < q /\ text[p] = START /\ text[q] = END

\* C19: a call on a text whose block json.loads rejects returns the text as
\* it came and no file name, and leaves output_dir as it was; the exception
\* stays inside the function, which returns.
C19_UnparseableBlockLeavesText ==
  [][( /\ MarkerPair(response_text)
       /\ JSONDecodeError(group1(response_text, re_search(response_text))) )
     => /\ call'.state = "returned"
        /\ call'.clean_text = response_text
        /\ call'.midi_filename = NULL
        /\ output_dir' = output_dir]_vars

\* C19 witness: the call has returned from a text with prose around a block
\* that json.loads rejected, with the older file still alone in output_dir.
C19_Witness ==
  /\ call.state = "returned"
  /\ call.printed = "Failed to parse MIDI JSON"
  /\ MarkerPair(response_text)
  /\ response_text[1] = Prose
  /\ call.clean_text = response_text
  /\ output_dir = {OlderFile}

\* C20: a call on a text without a start marker followed by an end marker
\* returns the text as it came and no file name, and leaves output_dir as it
\* was.
C20_NoBlockLeavesAllUnchanged ==
  [][~MarkerPair(response_text)
     => /\ call'.clean_text = response_text
        /\ call'.midi_filename = NULL
        /\ output_dir' = output_dir]_vars

\* C20 witness: the call has returned from a text that has a start marker
\* and the JSON token but no end marker after it.
C20_Witness ==
  /\ call.state = "returned"
  /\ ~MarkerPair(response_text)
  /\ Positions(response_text, START) # {}
  /\ Positions(response_text, JSON) # {}
  /\ call.printed = ""
  /\ call.midi_filename = NULL
  /\ output_dir = {OlderFile}

\* The Song of the scenario: tempo 100, one track "Bass", one note of pitch
\* 40, velocity 90, start_time 0 and duration 2 beats.
BassSong ==
  Song(Num(100), NoTimeSig,
       <<TrackData("Bass", <<Note(Num(40), Num(90), Num(0), Num(2000))>>)>>)

\* The text has one start marker and one end marker, the JSON token alone
\* between them.
OneBlock(text) ==
  /\ Cardinality(Positions(text, START)) = 1
  /\ Cardinality(Positions(text, END)) = 1
  /\ \E p \in 1..Len(text) - 2 :
       text[p] = START /\ text[p + 1] = JSON /\ text[p + 2] = END

\* The text with the three tokens of its one block replaced by the
\* placeholder.
WithPlaceholder(text) ==
  LET p == CHOOSE k \in 1..Len(text) : text[k] = START
  IN [k \in 1..Len(text) - 2 |->
        IF k < p THEN text[k] ELSE IF k = p THEN Replacement ELSE text[k + 2]]

\* C21: a call on a text whose one block is the Bass Song returns the text
\* with the block replaced by the placeholder and the name of a file that
\* has exactly one track, one set_tempo message of 600,000, one note_on for
\* pitch 40 at absolute tick 0 and one note_off for pitch 40 at absolute
\* tick 960.
C21_BassScenario ==
  ( /\ call.state = "returned"
    /\ OneBlock(response_text)
    /\ data = BassSong )
  => /\ Encoded
     /\ call.clean_text = WithPlaceholder(response_text)
     /\ Cardinality(Written) = 1
     /\ \A f \in Written :
          /\ f.complete
          /\ Len(f.tracks) = 1
          /\ Cardinality(Places(f.tracks, "set_tempo")) = 1
          /\ \A p \in Places(f.tracks, "set_tempo") :
               f.tracks[1][p[2]].tempo = 600000
          /\ Cardinality(Places(f.tracks, "note_on")) = 1
          /\ \A p \in Places(f.tracks, "note_on") :
               /\ f.tracks[1][p[2]].note = 40
               /\ f.tracks[1][p[2]].velocity = 90
               /\ SumTimes(f.tracks[1], p[2]) = 0
          /\ Cardinality(Places(f.tracks, "note_off")) = 1
          /\ \A p \in Places(f.tracks, "note_off") :
               /\ f.tracks[1][p[2]].note = 40
               /\ SumTimes(f.tracks[1], p[2]) = 960

\* C21 witness: the call has returned from a text with prose on both sides
\* of the block of the Bass Song.
C21_Witness ==
  /\ call.state = "returned"
  /\ data = BassSong
  /\ response_text = <<Prose, START, JSON, END, Prose>>
  /\ call.clean_text = <<Prose, Replacement, Prose>>
  /\ call.midi_filename = Filename

\* A Song of the contract: tempo a positive number (120 when missing), the
\* time signature a pair of numbers (4/4 when missing), every value of a
\* note a number or missing, no start before time zero, every duration
\* positive.
ValidSong(d) ==
  /\ d.kind = "object"
  /\ d.tempo.kind # "bad" /\ get(d.tempo, 120) > 0
  /\ \/ d.time_signature.kind = "absent"
     \/ /\ d.time_signature.kind = "list"
        /\ Len(d.time_signature.items) = 2
        /\ \A k \in 1..2 : d.time_signature.items[k].kind = "num"
  /\ \A t \in 1..Len(d.tracks) : \A n \in 1..Len(d.tracks[t].notes) :
       /\ SoundNote(d.tracks[t].notes[n])
       /\ get(d.tracks[t].notes[n].duration, 1000) > 0

\* The tempo a reader of the file finds: that of the first set_tempo message,
\* or the 500,000 microseconds per beat of a file that has none.
DecodedTempo(tracks) ==
  IF Places(tracks, "set_tempo") = {} THEN 500000
  ELSE LET p == CHOOSE q \in Places(tracks, "set_tempo") :
                  \A r \in Places(tracks, "set_tempo") :
                    q[1] < r[1] \/ (q[1] = r[1] /\ q[2] <= r[2])
       IN tracks[p[1]][p[2]].tempo

\* The time signature a reader of the file finds: 4/4 in a file without a
\* time_signature message.
DecodedTimeSig(tracks) ==
  IF Places(tracks, "time_signature") = {} THEN <<4, 4>>
  ELSE LET p == CHOOSE q \in Places(tracks, "time_signature") : TRUE
       IN <<tracks[p[1]][p[2]].numerator, tracks[p[1]][p[2]].denominator>>

\* The notes a reader of a track finds: a note_on opens a note, a note_off
\* closes the oldest open note of its pitch.
RECURSIVE DecodedNotes(_, _, _)
DecodedNotes(msgs, now, open) ==
  IF msgs = <<>> THEN <<>>
  ELSE LET msg == Head(msgs)
           tick == now + msg.time
           same == {k \in 1..Len(open) : open[k].pitch = msg.note}
       IN IF msg.type = "note_on" /\ msg.velocity > 0
            THEN DecodedNotes(Tail(msgs), tick,
                   Append(open, [pitch |-> msg.note, velocity |-> msg.velocity,
                                 start |-> tick]))
          ELSE IF msg.type \in {"note_on", "note_off"} /\ same # {}
            THEN <<[pitch |-> open[Least(same)].pitch,
                    velocity |-> open[Least(same)].velocity,
                    start |-> open[Least(same)].start, end |-> tick]>>
                 \o DecodedNotes(Tail(msgs), tick,
                      [k \in 1..Len(open) - 1 |->
                         IF k < Least(same) THEN open[k] ELSE open[k + 1]])
          ELSE DecodedNotes(Tail(msgs), tick, open)

\* A decoded note is the input note: pitch and velocity the same, start and
\* end within one tick of start_time * 480 and (start_time + duration) * 480.
SameNote(note, decoded) ==
  LET start == get(note.start_time, 0) * ticks_per_beat
      end == (get(note.start_time, 0) + get(note.duration, 1000)) * ticks_per_beat
  IN /\ decoded.pitch = get(note.pitch, 60)
     /\ decoded.velocity = get(note.velocity, 100)
     /\ decoded.start * 1000 - start \in -1000..1000
     /\ decoded.end * 1000 - end \in -1000..1000

\* The decoded notes are the input notes, taken in some order.
SameNotes(notes, decoded) ==
  /\ Len(decoded) = Len(notes)
  /\ \E perm \in Permutations(1..Len(notes)) :
       \A k \in 1..Len(notes) : SameNote(notes[k], decoded[perm[k]])

\* C22 (as claimed): any valid Song is encoded to a file from which a reader
\* recovers the tempo, the time signature and, track by track, the notes of
\* the Song.
C22_RoundTrip ==
  ( /\ call.state = "returned"
    /\ ParsedSong
    /\ ValidSong(data) )
  => /\ Encoded
     /\ \A f \in Written :
          /\ f.complete
          /\ IsNearest(DecodedTempo(f.tracks), 60000000, get(data.tempo, 120))
          /\ DecodedTimeSig(f.tracks) =
               <<get(time_sig(data).items[1], 4), get(time_sig(data).items[2], 4)>>
          /\ Len(f.tracks) = Len(data.tracks)
          /\ \A t \in 1..Len(f.tracks) :
               SameNotes(data.tracks[t].notes, DecodedNotes(f.tracks[t], 0, <<>>))

\* C23: in the persisted records of a job, Initialized has progress 0;
\* ProcessingStems has progress 10 right after Initialized and 30 right after
\* the record with 10; ProcessingMidi has a progress within 60..90 that is
\* not below that of a ProcessingMidi record before it; Succeeded has
\* progress 100.
C23_ProgressMatchesState ==
  \A j \in Jobs : \A k \in 1..Len(written[j]) :
    LET r == written[j][k]
        before == written[j][IF k > 1 THEN k - 1 ELSE k]
    IN /\ r.state = "initialized" => r.progress = 0 /\ k = 1
       /\ r.state = "processing_stems" =>
            /\ k > 1
            /\ \/ r.progress = 10 /\ before.state = "initialized"
               \/ /\ r.progress = 30
                  /\ before.state = "processing_stems"
                  /\ before.progress = 10
       /\ r.state = "processing_midi" =>
            /\ k > 1
            /\ r.progress \in 60..90
            /\ before.state = "processing_midi" => before.progress <= r.progress
            /\ before.state # "processing_midi" =>
                 before.state = "processing_stems" /\ before.progress = 30
       /\ r.state = "success" => r.progress = 100

\* C23 witness: a job has persisted Succeeded after ProcessingMidi records of
\* the loop's first and last entries.
C23_Witness ==
  \E j \in Jobs : \E a, b \in 1..Len(written[j]) :
    /\ written[j][Len(written[j])].state = "success"
    /\ written[j][Len(written[j])].progress = 100
    /\ a < b
    /\ written[j][a].state = "processing_midi"
    /\ written[j][a].progress = 60
    /\ written[j][b].state = "processing_midi"
    /\ written[j][b].progress = 85
    /\ written[j][2].progress = 10
    /\ written[j][3].progress = 30

\* The three coarse stems the refinement splits.
Refined == {"vocals.wav", "drums.wav", "other.wav"}

\* Where the pipeline stands before and after the split of a coarse stem.
SplitAt(coarse) ==
  CASE coarse = "vocals.wav" -> "vocals"
    [] coarse = "drums.wav" -> "drums"
    [] coarse = "other.wav" -> "other"

AfterSplit(coarse) ==
  CASE coarse = "vocals.wav" -> "drums"
    [] coarse = "drums.wav" -> "other"
    [] coarse = "other.wav" -> "midi"

\* The state of the last record persisted for job j.
LastState(j) == written[j][Len(written[j])].state

\* C24: past the refinement no coarse stem of the three is left in stems/; a
\* job that ended on a split that raised is Failed with a coarse stem still
\* in stems/; and at the turn of each coarse stem, a missing stem is passed
\* over with nothing changed and no exception, a split that raises leaves
\* stems/ as it was, and the stem is removed only by the step of its own
\* split returning, which leaves the products of the split behind.
C24_RefinementPerStem ==
  /\ [](\A j \in Jobs :
          /\ (pc[j] \in {"midi", "loop", "extract", "complete"}
              \/ (written[j] # <<>> /\ LastState(j) \in {"processing_midi", "success"}))
             => stems[j] \cap Refined = {}
          /\ (Ended(j) /\ e[j] = SplitError /\ body_exit[j] = "returned")
             => /\ status[j].json.state = "failed"
                /\ status[j].json.error = SplitError
                /\ stems[j] \cap Refined # {})
  /\ [][\A j \in Jobs : \A coarse \in Refined :
          /\ (coarse \in stems[j] /\ coarse \notin stems'[j])
             => /\ pc[j] = SplitAt(coarse)
                /\ pc'[j] = AfterSplit(coarse)
                /\ \E product \in SplitProducts(coarse) :
                     stems'[j] = (stems[j] \cup product) \ {coarse}
          /\ (pc[j] = SplitAt(coarse) /\ pc'[j] # pc[j])
             => IF coarse \in stems[j]
                  THEN pc'[j] = "except" => stems'[j] = stems[j] /\ e'[j] = SplitError
                  ELSE /\ pc'[j] = AfterSplit(coarse)
                       /\ stems'[j] = stems[j]
                       /\ e'[j] = e[j]]_vars

\* C24 witness: a job ended Failed on the split of drums.wav, after the
\* split of vocals.wav returned: the lead is there, vocals.wav is gone,
\* drums.wav is still there, and there was no other.wav.
C24_Witness ==
  \E j \in Jobs :
    /\ Ended(j)
    /\ status[j].json.state = "failed"
    /\ e[j] = SplitError
    /\ stems[j] = {"vocals_lead.wav", "drums.wav", "bass.wav"}

\* C25: every file of midi/ is the mapped name of a mapped stem that is in
\* stems/, and a job that is Succeeded with no mapped stem in stems/ has no
\* MIDI artifact; extract_midi_from_audio is called only from the loop, for
\* the entry of the loop index, whose stem is in stems/, it writes at most
\* the mapped name of that entry, and the index moves on by one with every
\* call and never back.
C25_TranscriptionOnlyMappedStems ==
  /\ [](\A j \in Jobs :
          /\ midi[j] \subseteq {MidiOf(stem) : stem \in stems[j] \cap MappedStems}
          /\ warned[j] \subseteq stems[j] \cap MappedStems
          /\ (Terminal(j) /\ status[j].json.state = "success"
              /\ stems[j] \cap MappedStems = {})
             => midi[j] = {} /\ status[j].json.midi = {})
  /\ [][\A j \in Jobs :
          /\ (pc'[j] = "extract" /\ pc[j] # "extract")
             => /\ pc[j] = "loop"
                /\ i[j] < Len(midi_map)
                /\ midi_map[i[j] + 1][1] \in stems[j]
                /\ i'[j] = i[j]
          /\ (pc[j] = "extract" /\ pc'[j] # "extract")
             => /\ midi_map[i[j] + 1][1] \in stems[j]
                /\ i'[j] = i[j] + 1
                /\ \/ midi'[j] = midi[j] \cup {midi_map[i[j] + 1][2]}
                   \/ /\ midi'[j] = midi[j]
                      /\ warned'[j] = warned[j] \cup {midi_map[i[j] + 1][1]}
                /\ pc'[j] = "loop"
          /\ (midi'[j] # midi[j] \/ warned'[j] # warned[j]) => pc[j] = "extract"
          /\ pc[j] \in {"loop", "extract"} => i'[j] >= i[j]]_vars

\* C25 witness: a job is Succeeded with the MIDI files of the lead and the
\* snare, the transcription of the bass having failed, and no file for the
\* mapped stems that were not there.
C25_Witness ==
  \E j \in Jobs :
    /\ Terminal(j)
    /\ status[j].json.state = "success"
    /\ status[j].json.midi = {"melody_lead.mid", "drums_notes.mid"}
    /\ warned[j] = {"bass.wav"}
    /\ stems[j] \cap MappedStems = {"vocals_lead.wav", "bass.wav", "snare.wav"}

\* C26: a record that is persisted lists the files that stems/ and midi/ of
\* its job hold at that moment, no step changes stems/ or midi/ of a job
\* whose status.json holds Succeeded or Failed, and so the artifacts of such
\* a record are the contents of the two directories.
C26_ArtifactsAreDirectoryListing ==
  /\ [](\A j \in Jobs :
          Terminal(j) => /\ status[j].json.stems = stems[j]
                         /\ status[j].json.midi = midi[j])
  /\ [][\A j \in Jobs :
          /\ written'[j] # written[j]
             => /\ Len(written'[j]) = Len(written[j]) + 1
                /\ written'[j][Len(written'[j])].stems = stems[j]
                /\ written'[j][Len(written'[j])].midi = midi[j]
                /\ stems'[j] = stems[j]
                /\ midi'[j] = midi[j]
          /\ Terminal(j) => stems'[j] = stems[j] /\ midi'[j] = midi[j]]_vars

\* C26 witness: a job has ended Succeeded with refined stems and MIDI files
\* in its directories and the same names in its record.
C26_Witness ==
  \E j \in Jobs :
    /\ pc[j] = "done"
    /\ Terminal(j)
    /\ status[j].json.progress = 100
    /\ Cardinality(stems[j]) >= 5
    /\ Cardinality(midi[j]) >= 2
    /\ status[j].json.stems = stems[j]
    /\ status[j].json.midi = midi[j]

\* What job j owns: its record, the write in progress, its directories and
\* where its task stands.
Owned(j) ==
  <<status[j], buffer[j], written[j], stems[j], midi[j], demucs_out[j],
    pc[j], kwargs[j], i[j], e[j], sep_result[j], warned[j], body_exit[j]>>

\* C27: every persisted record carries the identifier of the job in whose
\* directory it is, and a step that changes anything job j owns leaves
\* everything every other job owns as it was; what is left to change across
\* jobs is the semaphore's counter.
C27_JobsIsolated ==
  /\ [](\A j \in Jobs : \A k \in 1..Len(written[j]) : written[j][k].job_id = j)
  /\ [][\A j, k \in Jobs :
          (j # k /\ Owned(j)' # Owned(j)) => Owned(k)' = Owned(k)]_vars

\* C27 witness: two jobs have run to the end and given their slots back;
\* each has its own stems and its own record.
C27_Witness ==
  \E j, k \in Jobs :
    /\ j # k
    /\ pc[j] = "done" /\ pc[k] = "done"
    /\ body_exit[j] = "returned" /\ body_exit[k] = "returned"
    /\ stems[j] = {"bass.wav"} /\ stems[k] = {}
    /\ status[j].json.state = "success"
    /\ status[k].json.state = "failed"
    /\ sem_value = MAX_CONCURRENT_HEAVY_JOBS

\* The last record persisted for job j is ProcessingStems or ProcessingMidi.
Processing(j) ==
  /\ written[j] # <<>>
  /\ LastState(j) \in {"processing_stems", "processing_midi"}

\* C28: the jobs whose persisted state is ProcessingStems or ProcessingMidi
\* are never more than the semaphore's limit: such a job holds a slot, a job
\* that has given its slot back is not among them, and a job that waits for
\* its slot has the Initialized record with progress 0 in status.json.
C28_ProcessingWithinLimit ==
  /\ Cardinality({j \in Jobs : Processing(j)}) <= MAX_CONCURRENT_HEAVY_JOBS
  /\ \A j \in Jobs :
       /\ Processing(j) => Holding(j) /\ pc[j] # "call"
       /\ pc[j] = "done" => ~Processing(j)
       /\ pc[j] = "queued" =>
            status[j] = [content |-> "json", json |-> Initialized(j)]

\* C28 witness: one job is at a call of the transcription with ProcessingMidi
\* persisted while the other waits for the slot.
C28_Witness ==
  \E j, k \in Jobs :
    /\ pc[j] = "extract"
    /\ Closed(j)
    /\ LastState(j) = "processing_midi"
    /\ pc[k] = "queued"
    /\ kwargs[k] = {}
    /\ LastState(k) = "initialized"
    /\ sem_value = 0

\* The records of job j that reached status.json, the one in the file now
\* included.
Persisted(j) ==
  {written[j][k] : k \in 1..Len(written[j])}
    \cup (IF status[j].content = "json" THEN {status[j].json} ELSE {})

\* C29: in every record persisted for a job, error is non-null exactly when
\* state is Failed, also in the Succeeded record written after transcription
\* failures that the loop tolerated, and a Failed record's error is the text
\* of the exception the pipeline caught.
C29_ErrorIffFailed ==
  \A j \in Jobs : \A r \in Persisted(j) :
    /\ (r.error # NULL) <=> (r.state = "failed")
    /\ r.state = "failed" =>
         /\ r.error = e[j]
         /\ r.error \in {SeparationError, SplitError}

\* C29 witness: a job's split raised after two records without error were
\* persisted, and its last record is Failed with the split's exception text.
C29_Witness ==
  \E j \in Jobs :
    /\ Len(written[j]) >= 3
    /\ LastState(j) = "failed"
    /\ written[j][Len(written[j])].error = SplitError
    /\ \A k \in 1..(Len(written[j]) - 1) : written[j][k].error = NULL

\* The returned text has the placeholder where the first block of the input
\* began, after the same tokens, and no block of the input left in it.
Substituted ==
  LET p == Least(Positions(response_text, START))
  IN /\ Len(call.clean_text) >= p
     /\ SubSeq(call.clean_text, 1, p - 1) = SubSeq(response_text, 1, p - 1)
     /\ call.clean_text[p] = Replacement
     /\ ~re_search(call.clean_text).found

\* A step of the call failed: json.loads, the building of the tracks or
\* mid.save raised.
CallFailed ==
  /\ re_search(response_text).found
  /\ \/ JSONDecodeError(group1(response_text, re_search(response_text)))
     \/ BuildRaises(data)
     \/ SaveRaises(MidiFile(data))

\* C30: a returned call names a file exactly when its text differs from the
\* input; when it names one the text is the input with the placeholder
\* substituted and the file of that name is in output_dir, written whole;
\* when it names none the text is the input and no whole file of this call
\* is in output_dir; a failure of the parse, of the build or of the save
\* returns the input text and no name.
C30_FileIffSubstituted ==
  call.state = "returned" =>
    /\ (call.midi_filename # NULL) <=> (call.clean_text # response_text)
    /\ call.midi_filename # NULL =>
         /\ Substituted
         /\ \E f \in output_dir :
              f.name = call.midi_filename /\ f.complete /\ f.tracks = call.mid
    /\ call.midi_filename = NULL =>
         /\ call.clean_text = response_text
         /\ \A f \in output_dir : f.name = Filename => ~f.complete
    /\ CallFailed => call.midi_filename = NULL /\ call.clean_text = response_text

\* C30 witness: mid.save raised on the second track of a call, whose first
\* track is in the file it left, and the call returned the input text and no
\* name.
C30_Witness ==
  /\ call.state = "returned"
  /\ MarkerPair(response_text)
  /\ Len(call.mid) = 2
  /\ ~BadTrack(call.mid[1])
  /\ BadTrack(call.mid[2])
  /\ \E f \in output_dir : f.name = Filename /\ ~f.complete /\ Len(f.tracks) = 1
  /\ call.midi_filename = NULL
  /\ call.clean_text = response_text

\* The input text with the block that re.search matched, markers included,
\* replaced by the placeholder and every other token left in place.
OnlyParsedBlockReplaced(text) ==
  LET match == re_search(text)
  IN SubSeq(text, 1, match.start - 1) \o <<Replacement>>
       \o SubSeq(text, match.end + 1, Len(text))

\* C31: a call that parsed and encoded a block returns the input text with
\* that one block replaced by the placeholder and all the text outside it
\* unchanged; a second block of the text, which was neither parsed nor
\* encoded, is in the returned text as it was in the input.
C31_OnlyParsedBlockReplaced ==
  Encoded => call.clean_text = OnlyParsedBlockReplaced(response_text)

====
